---- MODULE Spec2Model ----
(***************************************************************************)
(* Batch acquisition controller (BatchProcessor.process_batch), the dedup  *)
(* ledger (ImageTracker) and the content scorer / acceptance gate          *)
(* (EnhancedContentFilter) of auto_etsy.                                   *)
(*                                                                         *)
(* Scores are floats in the source; here a score is an integer number of   *)
(* thousandths (1.0 is 1000).  Image dimensions are counted in units of    *)
(* 120 pixels, so that 1920x1080 is 16x9, 1200 px is 10 and 24 inches at   *)
(* 150 dpi (3600 px) is 30.                                                *)
(***************************************************************************)
EXTENDS Integers, Sequences, FiniteSets, TLC

(* ------------------------------ bounds --------------------------------- *)
NumItems == 2
MaxPosts == 2
MaxIterations == 2
MaxTarget == 2
MaxLabels == 1
MaxMarks == 3
MaxAge == 2
MaxClock == 2

ItemIds == 1..NumItems

(* --------------------------- small helpers ----------------------------- *)
Min(a, b) == IF a <= b THEN a ELSE b
Max(a, b) == IF a >= b THEN a ELSE b

RECURSIVE MaxOfSet(_)
MaxOfSet(S) ==
    IF S = {} THEN 0
    ELSE LET x == CHOOSE y \in S : TRUE IN Max(x, MaxOfSet(S \ {x}))

(* ------------------- config.py: thresholds, categories ----------------- *)
MIN_QUALITY_SCORE == 500
MIN_CATEGORY_SCORE == 500
MIN_OVERALL_SCORE == 600
LandscapeRatioTenths == 12

Taxonomy == {"landscape", "sunset", "water", "urban", "nature", "mountains"}
ENHANCED_CONTENT_CATEGORIES == Taxonomy

(* category-level weight multiplier, in tenths *)
CategoryWeight(c) == CASE c = "urban" -> 8 [] c = "nature" -> 9 [] OTHER -> 10

(* Sum, in tenths, of the tier weights (primary 1.0, secondary 0.6, related  *)
(* 0.3) of the keywords of category c that substring-match label text t in   *)
(* either direction, for the label texts of Vocabulary.                      *)
Vocabulary == {"mountain", "water", "sky", "food"}
KeywordHits(c, t) ==
    CASE t = "mountain" /\ c \in {"landscape", "mountains"} -> 10
      [] t = "water" /\ c = "water" -> 20
      [] t = "sky" /\ c \in {"landscape", "sunset", "mountains"} -> 3
      [] t = "sky" /\ c = "urban" -> 6
      [] OTHER -> 0

(* ------------------------ VideoThumbnailDetector ----------------------- *)
(* A file is its base name, its image (or bytes that are no image), the     *)
(* best template match of a play button in it and whether its bottom strip  *)
(* holds a long horizontal line.  Confidences are thousandths.              *)
FileNames == {"photo", "a_v1", "clip", "x_video"}

(* _check_filename_indicators: substring tests against the suffix list      *)
(* ('_v', '_video', '_vid', '_reel', '_story') and the keyword list         *)
(* ('video', 'reel', 'story', 'clip', 'movie')                              *)
CheckFilenameIndicators(name) ==
    [has_video_suffix |-> name \in {"a_v1", "x_video"},
     has_video_keywords |-> name \in {"clip", "x_video"}]

(* detect_play_button(image_path, threshold = 0.6) *)
DetectPlayButton(file) ==
    IF ~file.img.decodable THEN [detected |-> FALSE, confidence |-> 0]
    ELSE [detected |-> file.play_match >= 600, confidence |-> file.play_match]

(* _detect_video_ui_elements *)
DetectVideoUiElements(file) ==
    [progress_bar_detected |-> file.img.decodable /\ file.progress_bar]

(* |w/h - a/b| <= 0.1 *)
NearRatio(img, a, b) ==
    LET d == b * img.w - a * img.h
    IN 10 * (IF d >= 0 THEN d ELSE -d) <= b * img.h

(* _check_aspect_ratio: the first video ratio within the tolerance *)
CheckAspectRatio(img) ==
    IF ~img.decodable THEN [is_video_ratio |-> FALSE, ratio_type |-> "unknown"]
    ELSE LET ratio_type ==
                 CASE NearRatio(img, 16, 9) -> "16:9"
                   [] ~NearRatio(img, 16, 9) /\ NearRatio(img, 4, 3) -> "4:3"
                   [] ~NearRatio(img, 16, 9) /\ ~NearRatio(img, 4, 3)
                        /\ NearRatio(img, 21, 9) -> "21:9"
                   [] ~NearRatio(img, 16, 9) /\ ~NearRatio(img, 4, 3)
                        /\ ~NearRatio(img, 21, 9) /\ NearRatio(img, 9, 16) -> "9:16"
                   [] ~NearRatio(img, 16, 9) /\ ~NearRatio(img, 4, 3)
                        /\ ~NearRatio(img, 21, 9) /\ ~NearRatio(img, 9, 16)
                        /\ NearRatio(img, 1, 1) -> "1:1"
                   [] OTHER -> "unknown"
         IN [is_video_ratio |-> ratio_type # "unknown", ratio_type |-> ratio_type]

(* _calculate_overall_confidence *)
CalculateOverallConfidence(indicators) ==
    Min(1000,
        (IF indicators.play_button.detected
         THEN (indicators.play_button.confidence * 6) \div 10 ELSE 0)
        + (IF indicators.filename.has_video_suffix THEN 300 ELSE 0)
        + (IF indicators.filename.has_video_keywords THEN 200 ELSE 0)
        + (IF indicators.ui_elements.progress_bar_detected THEN 250 ELSE 0)
        + (IF indicators.aspect_ratio.is_video_ratio
              /\ indicators.aspect_ratio.ratio_type = "9:16" THEN 150 ELSE 0))

(* detect_video_indicators *)
DetectVideoIndicators(file) ==
    LET indicators == [filename |-> CheckFilenameIndicators(file.name),
                       play_button |-> DetectPlayButton(file),
                       ui_elements |-> DetectVideoUiElements(file),
                       aspect_ratio |-> CheckAspectRatio(file.img)]
        confidence_score == CalculateOverallConfidence(indicators)
    IN [is_likely_video |-> confidence_score > 500,
        confidence_score |-> confidence_score,
        indicators |-> indicators]

(* ----------------- EnhancedContentFilter: the scorer ------------------- *)
RECURSIVE LabelSum(_, _)
LabelSum(c, labels) ==
    IF labels = <<>> THEN 0
    ELSE (Head(labels).score * KeywordHits(c, Head(labels).text)) \div 10
         + LabelSum(c, Tail(labels))

(* how many keywords of category c match label text t ("water" matches both *)
(* 'water' and 'waterfall')                                                 *)
KeywordMatches(c, t) ==
    IF t = "water" /\ c = "water" THEN 2
    ELSE IF KeywordHits(c, t) > 0 THEN 1 ELSE 0

RECURSIVE MatchCount(_, _)
MatchCount(c, labels) ==
    IF labels = <<>> THEN 0
    ELSE KeywordMatches(c, Head(labels).text) + MatchCount(c, Tail(labels))

MatchCategories(labels) ==
    [c \in Taxonomy |->
        [score |-> (LabelSum(c, labels) * CategoryWeight(c)) \div 10,
         match_count |-> MatchCount(c, labels)]]

AssessImageQuality(img) ==
    IF ~img.decodable THEN 0
    ELSE LET resolution_score == Min(1000, (img.w * img.h * 1000) \div (16 * 9))
             aspect_score == IF 2 * img.w >= img.h /\ img.w <= 2 * img.h
                             THEN 1000 ELSE 500
             size_score == Min(1000, (Min(img.w, img.h) * 1000) \div 10)
         IN (resolution_score * 4 + aspect_score * 3 + size_score * 3) \div 10

AssessPrintSuitability(img, category_matches) ==
    IF ~img.decodable THEN 0
    ELSE LET print_size_score == Min(1000, (Max(img.w, img.h) * 1000) \div 30)
             aspect_suitability ==
                 IF 10 * img.w >= 7 * img.h /\ 2 * img.w <= 3 * img.h THEN 1000
                 ELSE IF 2 * img.w >= img.h /\ img.w <= 2 * img.h THEN 800
                 ELSE 500
             content_suitability ==
                 MaxOfSet({category_matches[c].score :
                             c \in {d \in DOMAIN category_matches :
                                      category_matches[d].score > 500}})
         IN (print_size_score * 4 + aspect_suitability * 3
             + content_suitability * 3) \div 10

CalculateOverallScore(is_video, quality_score, print_suitability, category_matches) ==
    IF is_video THEN 0
    ELSE LET best_category_score ==
                 MaxOfSet({category_matches[c].score : c \in DOMAIN category_matches})
             normalized_category_score == Min(1000, best_category_score \div 2)
         IN (quality_score * 3 + print_suitability * 4
             + normalized_category_score * 3) \div 10

NoMatches == [c \in {} |-> 0]

AnalyzeImageContent_LabelsAnyway(scene) ==
    IF scene.is_likely_video
    THEN [is_video_thumbnail |-> TRUE, labels |-> <<>>,
          category_matches |-> NoMatches, quality_score |-> 0,
          print_suitability |-> 0, overall_score |-> 0]
    ELSE LET labels == scene.labels
             cm == MatchCategories(labels)
             q == AssessImageQuality(scene.img)
             p == AssessPrintSuitability(scene.img, cm)
         IN [is_video_thumbnail |-> FALSE, labels |-> labels,
             category_matches |-> cm, quality_score |-> q,
             print_suitability |-> p,
             overall_score |-> CalculateOverallScore(FALSE, q, p, cm)]
(* analyze_image_content.  scene: the image file, the detector's verdict,    *)
(* and the vision classifier's behaviour ("ok" with labels, "raises" or      *)
(* "unavailable").                                                           *)
AnalyzeImageContent(scene) ==
    IF scene.is_likely_video
    THEN [is_video_thumbnail |-> TRUE, labels |-> <<>>,
          category_matches |-> NoMatches, quality_score |-> 0,
          print_suitability |-> 0, overall_score |-> 0]
    ELSE LET labels == IF scene.classifier = "ok" THEN scene.labels ELSE <<>>
             cm == MatchCategories(labels)
             q == AssessImageQuality(scene.img)
             p == AssessPrintSuitability(scene.img, cm)
         IN [is_video_thumbnail |-> FALSE, labels |-> labels,
             category_matches |-> cm, quality_score |-> q,
             print_suitability |-> p,
             overall_score |-> CalculateOverallScore(FALSE, q, p, cm)]

(* ------------- EnhancedContentFilter: the acceptance gate -------------- *)
BestMatchScore(analysis, content_categories) ==
    MaxOfSet({analysis.category_matches[c].score :
                c \in content_categories \cap DOMAIN analysis.category_matches})

FirstFailingCheck_Strict(analysis, content_categories, min_quality, min_category, min_overall) ==
    IF analysis.is_video_thumbnail THEN "video"
    ELSE IF analysis.quality_score < min_quality THEN "quality"
    ELSE IF content_categories # {}
            /\ BestMatchScore(analysis, content_categories) <= min_category
         THEN "category"
    ELSE IF analysis.overall_score < min_overall THEN "overall"
    ELSE "none"
(* which check of meets_content_criteria rejects first ("none": accepted) *)
FirstFailingCheck(analysis, content_categories, min_quality, min_category, min_overall) ==
    IF analysis.is_video_thumbnail THEN "video"
    ELSE IF analysis.quality_score < min_quality THEN "quality"
    ELSE IF content_categories # {}
            /\ BestMatchScore(analysis, content_categories) < min_category
         THEN "category"
    ELSE IF analysis.overall_score < min_overall THEN "overall"
    ELSE "none"

MeetsContentCriteria(analysis, content_categories, min_quality, min_category, min_overall) ==
    FirstFailingCheck(analysis, content_categories, min_quality, min_category, min_overall) = "none"

(* _download_and_analyze_image, "Determine rejection reason" *)
RejectionReason_ScoresFirst(analysis, min_quality, min_overall) ==
    IF analysis.overall_score < min_overall THEN "overall score"
    ELSE IF analysis.quality_score < min_quality THEN "quality score"
    ELSE IF analysis.is_video_thumbnail THEN "video thumbnail"
    ELSE "category criteria not met"
RejectionReason(analysis, min_quality, min_overall) ==
    IF analysis.is_video_thumbnail THEN "video thumbnail"
    ELSE IF analysis.overall_score < min_overall THEN "overall score"
    ELSE IF analysis.quality_score < min_quality THEN "quality score"
    ELSE "category criteria not met"

(* ------------------------------ state --------------------------------- *)
VARIABLES
    apify_client,        \* BatchProcessor.apify_client is set
    profiles_configured, \* a profile list is passed or configured
    use_gcs,             \* BatchProcessor.use_gcs (and gcs available)
    processed_images,    \* ImageTracker.processed_images: image_id -> entry
    tracking_file,       \* the persisted processed_images.json
    pc,                  \* position in process_batch
    target_count, max_iterations, criteria,
    existing_accepted, iteration, accepted_images, iteration_results,
    total_posts_scraped, total_posts_processed,
    posts, unprocessed_posts, idx, iteration_accepted,
    results,             \* the dictionary process_batch returns
    \* history of the run, for the properties
    scrape_requests,     \* scrape jobs submitted by this invocation
    raw_posts,           \* dataset items of the last scrape, before filtering
    photos_returned,     \* non-video dataset items returned in this invocation
    last_round,          \* how the last round ended
    last_fate,           \* what happened to the last item of the per-item stage
    last_result,         \* what _download_and_analyze_image returned for it
    last_image,          \* the image file its download produced
    marked_posts,        \* the posts passed to mark_processed by process_batch
    deduped_ids,         \* ids that had a ledger entry at a DEDUPE step
    stage_entries,       \* id -> times it entered download/analysis
    ledger_at_init,      \* accepted ids of the ledger when process_batch began
    slept,               \* time.sleep(2) ran since the last SCRAPE step
    \* direct use of the tracker and of the filter (TrackerSpec, GateSpec)
    last_call,           \* image_id -> arguments of its latest mark_processed
    marks,               \* number of mark_processed calls made directly
    tracker_proc,        \* the process that owns the tracker: running, crashed, restarted
    last_save,           \* outcome and image_id of the latest _save_tracking_data
    gate_pc, gate_scene, gate_criteria, gate_analysis, gate_result,
    \* direct use of analyze_image_content (AnalyzeSpec)
    an_pc,               \* position in analyze_image_content
    an_input,            \* the file, the classifier's behaviour and its labels
    an_detect,           \* what detect_video_indicators returned
    an_calls,            \* the components invoked so far, in order
    an_analysis,         \* the returned analysis
    \* a second tracker on the same tracking file (TwoTrackerSpec)
    other_images,        \* its processed_images
    other_call,          \* image_id -> arguments of its latest mark_processed
    \* records without a short code, and the wall clock (IdSpec)
    clock,               \* datetime.now(), in seconds
    id_marked,           \* the records passed to mark_processed
    \* cleanup_old_entries (CleanupSpec)
    cleanup              \* the call: its argument, the ledger before, its outcome

vars == <<apify_client, profiles_configured, use_gcs, processed_images,
          tracking_file, pc, target_count, max_iterations, criteria,
          existing_accepted, iteration, accepted_images, iteration_results,
          total_posts_scraped, total_posts_processed, posts, unprocessed_posts,
          idx, iteration_accepted, results, scrape_requests, raw_posts,
          photos_returned, last_round, last_fate, last_result, last_image,
          marked_posts,
          deduped_ids, stage_entries, ledger_at_init, slept, last_call, marks,
          tracker_proc, last_save,
          gate_pc, gate_scene, gate_criteria, gate_analysis, gate_result,
          an_pc, an_input, an_detect, an_calls, an_analysis,
          other_images, other_call, clock, id_marked, cleanup>>

gate_vars == <<gate_pc, gate_scene, gate_criteria, gate_analysis, gate_result>>
analyze_vars == <<an_pc, an_input, an_detect, an_calls, an_analysis>>
tracker_aux == <<last_call, marks, tracker_proc, last_save>>
extra_vars == <<other_images, other_call, clock, id_marked, cleanup>>
aux_vars == <<tracker_aux, gate_vars, analyze_vars, extra_vars>>
config_vars == <<apify_client, profiles_configured, use_gcs>>
tracker_vars == <<processed_images, tracking_file>>
param_vars == <<target_count, max_iterations, criteria>>

(* ----------------------------- ImageTracker ---------------------------- *)
EmptyLedger == [x \in {} |-> 0]
NoPath == [dir |-> "None", file |-> 0]

(* _generate_image_id: the short code is the id of a record that has one *)
GenerateImageId(post) == post.shortCode

(* _generate_image_id for any record, at wall-clock second `now`.  A field  *)
(* is 0 when the record lacks it or holds an empty value; ids are numbers:  *)
(* short codes below 10, post ids from 20, URL hashes from 30 and the       *)
(* 'unknown_<%Y%m%d_%H%M%S>' fallback from 100.                             *)
Md5Prefix(url) == 30 + url
UnknownId(now) == 100 + now
GenerateImageIdAt(post_data, now) ==
    IF post_data.shortCode # 0 THEN post_data.shortCode
    ELSE IF post_data.id # 0 THEN post_data.id
    ELSE LET image_url == IF post_data.displayUrl # 0 THEN post_data.displayUrl
                          ELSE post_data.images
         IN IF image_url # 0 THEN Md5Prefix(image_url) ELSE UnknownId(now)

IsProcessed_Never(ledger, post) == FALSE
IsProcessed(ledger, post) == GenerateImageId(post) \in DOMAIN ledger

TrackingEntry(post, status, analysis, local_path) ==
    IF analysis.present
    THEN [image_id |-> GenerateImageId(post), status |-> status,
          local_path |-> local_path,
          analysis |-> [overall_score |-> analysis.value.overall_score,
                        quality_score |-> analysis.value.quality_score,
                        is_video_thumbnail |-> analysis.value.is_video_thumbnail,
                        category_matches |-> analysis.value.category_matches]]
    ELSE [image_id |-> GenerateImageId(post), status |-> status,
          local_path |-> local_path]

Upsert_Merge(ledger, key, entry) ==
    [k \in DOMAIN ledger \cup {key} |->
        IF k = key
        THEN (IF key \in DOMAIN ledger
              THEN [f \in DOMAIN ledger[key] \cup DOMAIN entry |->
                       IF f \in DOMAIN entry THEN entry[f] ELSE ledger[key][f]]
              ELSE entry)
        ELSE ledger[k]]
Upsert(ledger, key, entry) ==
    [k \in DOMAIN ledger \cup {key} |-> IF k = key THEN entry ELSE ledger[k]]

(* _save_tracking_data: the whole ledger is rewritten; a failure is logged.  *)
(* io = "open_fails": the file is left as it was; "write_fails": the file    *)
(* was truncated and holds no valid JSON.                                    *)
SaveOutcomes == {"ok", "open_fails", "write_fails"}
SaveTrackingData(ledger, file, io) ==
    CASE io = "ok" -> [valid |-> TRUE, data |-> ledger]
      [] io = "open_fails" -> file
      [] OTHER -> [valid |-> FALSE, data |-> EmptyLedger]

(* _load_tracking_data *)
LoadTrackingData(file) == IF file.valid THEN file.data ELSE EmptyLedger

NoAnalysis == [present |-> FALSE]
SomeAnalysis(a) == [present |-> TRUE, value |-> a]
MarkProcessed_RollBack(t, post, status, analysis, local_path, io) ==
    LET mem == Upsert(t.mem, GenerateImageId(post),
                      TrackingEntry(post, status, analysis, local_path))
    IN IF io = "ok" THEN [mem |-> mem, file |-> SaveTrackingData(mem, t.file, io)]
       ELSE t
(* mark_processed on tracker state t = [mem, file] *)
MarkProcessed(t, post, status, analysis, local_path, io) ==
    LET mem == Upsert(t.mem, GenerateImageId(post),
                      TrackingEntry(post, status, analysis, local_path))
    IN [mem |-> mem, file |-> SaveTrackingData(mem, t.file, io)]

GetAcceptedImages(ledger) == {k \in DOMAIN ledger : ledger[k].status = "accepted"}

GetProcessedCount(ledger, status) ==
    Cardinality({k \in DOMAIN ledger : ledger[k].status = status})

GetUnprocessedPosts_NoFilter(ledger, ps) == ps
GetUnprocessedPosts(ledger, ps) == SelectSeq(ps, LAMBDA p : ~IsProcessed(ledger, p))

GetStats(ledger) ==
    [total_processed |-> Cardinality(DOMAIN ledger),
     accepted |-> GetProcessedCount(ledger, "accepted"),
     rejected |-> GetProcessedCount(ledger, "rejected"),
     errors |-> GetProcessedCount(ledger, "error")]

(* cleanup_old_entries reads processed_at, which mark_processed sets to the *)
(* time of the call.  A stamp is an ISO timestamp `age` whole days before   *)
(* the cleanup, or a value a hand-edited file can hold: the key missing,    *)
(* null, or a string that is no timestamp.                                  *)
Stamps ==
    {[kind |-> "iso", age |-> a] : a \in 0..MaxAge}
    \cup {[kind |-> k, age |-> 0] : k \in {"missing", "null", "malformed"}}

(* datetime.fromisoformat(entry.get('processed_at', '')) *)
ParseStamp(stamp) ==
    CASE stamp.kind = "iso" -> "parsed"
      [] stamp.kind = "null" -> "TypeError"
      [] OTHER -> "ValueError"

(* cleanup_old_entries(days) on tracker state t.  Only ValueError is caught; *)
(* the entries are deleted after the scan, so an exception leaves t as is.  *)
CleanupOldEntries(t, days, io) ==
    IF \E k \in DOMAIN t.mem : ParseStamp(t.mem[k].processed_at) = "TypeError"
    THEN [raised |-> TRUE, t |-> t]
    ELSE LET old_entries ==
                 {k \in DOMAIN t.mem :
                     \/ ParseStamp(t.mem[k].processed_at) = "ValueError"
                     \/ t.mem[k].processed_at.age > days}
             mem == [k \in DOMAIN t.mem \ old_entries |-> t.mem[k]]
         IN [raised |-> FALSE,
             t |-> [mem |-> mem,
                    file |-> IF old_entries # {}
                             THEN SaveTrackingData(mem, t.file, io) ELSE t.file]]

(* ------------------- upstream records and image files ------------------ *)
Posts == [shortCode : ItemIds, isVideo : BOOLEAN]

RECURSIVE SeqsUpTo(_, _)
SeqsUpTo(S, n) ==
    IF n = 0 THEN {<<>>}
    ELSE LET shorter == SeqsUpTo(S, n - 1)
         IN shorter \cup {Append(q, x) : q \in {r \in shorter : Len(r) = n - 1}, x \in S}

RawResults == SeqsUpTo(Posts, MaxPosts)

Image(w, h) == [decodable |-> TRUE, w |-> w, h |-> h]
CorruptImage == [decodable |-> FALSE, w |-> 0, h |-> 0]
MountainLabel == <<[text |-> "mountain", score |-> 900]>>

Scene(img, video, classifier, labels) ==
    [img |-> img, is_likely_video |-> video, classifier |-> classifier,
     labels |-> labels]

(* the downloads a batch meets: a good landscape photo, the same photo when  *)
(* the classifier call raises, a small photo, a video thumbnail, bytes that  *)
(* are no image, and a square photo                                          *)
BatchScenes ==
    {Scene(Image(16, 9), FALSE, "ok", MountainLabel),
     Scene(Image(16, 9), FALSE, "raises", MountainLabel),
     Scene(Image(6, 4), FALSE, "ok", MountainLabel),
     Scene(Image(16, 9), TRUE, "ok", MountainLabel),
     Scene(CorruptImage, FALSE, "ok", <<>>),
     Scene(Image(9, 9), FALSE, "ok", MountainLabel)}

NoScene == Scene(CorruptImage, FALSE, "ok", <<>>)

ItemEnvs ==
    {[kind |-> k, scene |-> NoScene, late |-> "none"] :
        k \in {"no_url", "setup_raises", "download_fail"}}
    \cup {[kind |-> "downloaded", scene |-> s, late |-> l] :
            s \in BatchScenes, l \in {"none", "upload_raises", "remove_raises"}}

(* image_utils.get_image_dimensions / is_landscape(image_data, 1.2) *)
IsLandscape_AnyImage(img) == img.decodable
IsLandscape(img) ==
    IF ~img.decodable THEN FALSE
    ELSE 10 * img.w >= LandscapeRatioTenths * img.h

(* process_batch's criteria: config defaults, or thresholds of zero *)
CriteriaChoices ==
    {[content_categories |-> ENHANCED_CONTENT_CATEGORIES,
      min_quality_score |-> MIN_QUALITY_SCORE,
      min_category_score |-> MIN_CATEGORY_SCORE,
      min_overall_score |-> MIN_OVERALL_SCORE],
     [content_categories |-> ENHANCED_CONTENT_CATEGORIES,
      min_quality_score |-> 0, min_category_score |-> 0,
      min_overall_score |-> 0]}

(* ------------------ BatchProcessor: one item of a round ---------------- *)
NoResult == [returned |-> FALSE]

(* the result dictionary of lines 340-360 *)
AnalysisResult(post, analysis, cr) ==
    LET meets == MeetsContentCriteria(analysis, cr.content_categories,
                     cr.min_quality_score, cr.min_category_score,
                     cr.min_overall_score)
    IN [returned |-> TRUE,
        status |-> IF meets THEN "accepted" ELSE "rejected",
        shortcode |-> post.shortCode,
        analysis |-> analysis,
        rejection_reason |->
            IF meets THEN "none"
            ELSE RejectionReason(analysis, cr.min_quality_score,
                                 cr.min_overall_score)]

(* the error exits of _download_and_analyze_image: record the item as error *)
(* and return None                                                          *)
MarkError_Forgotten(t, post, io) == [t |-> t, result |-> NoResult]
MarkError(t, post, io) ==
    [t |-> MarkProcessed(t, post, "error", NoAnalysis, NoPath, io),
     result |-> NoResult]

(* _download_and_analyze_image on tracker state t; gives the tracker state  *)
(* and the returned value                                                   *)
DownloadAndAnalyzeImage(t, post, env, io, cr, gcs) ==
    LET local_path == [dir |-> IF gcs THEN "temp" ELSE "original",
                       file |-> post.shortCode]
        Error(t0) == MarkError(t0, post, io)
    IN IF env.kind \in {"no_url", "setup_raises", "download_fail"} THEN Error(t)
       ELSE IF ~IsLandscape(env.scene.img)
       THEN LET t1 == MarkProcessed(t, post, "rejected", NoAnalysis, local_path, io)
            IN IF env.late = "remove_raises" THEN Error(t1)
               ELSE [t |-> t1,
                     result |-> [returned |-> TRUE, status |-> "rejected",
                                 shortcode |-> post.shortCode,
                                 rejection_reason |-> "not landscape"]]
       ELSE LET analysis == AnalyzeImageContent(env.scene)
                result == AnalysisResult(post, analysis, cr)
                meets == result.status = "accepted"
            IN IF meets /\ gcs /\ env.late = "upload_raises" THEN Error(t)
               ELSE LET t1 == MarkProcessed(t, post, result.status,
                                            SomeAnalysis(analysis), local_path, io)
                    IN IF gcs /\ meets /\ env.late = "remove_raises"
                       THEN Error(t1)
                       ELSE [t |-> t1, result |-> result]

(* what befell the item, for the properties *)
FateOf(env, cr, gcs) ==
    IF env.kind # "downloaded" THEN env.kind
    ELSE IF ~env.scene.img.decodable
         THEN (IF env.late = "remove_raises" THEN "late_exception" ELSE "decode_fail")
    ELSE IF ~IsLandscape(env.scene.img)
         THEN (IF env.late = "remove_raises" THEN "late_exception" ELSE "not_landscape")
    ELSE LET meets == AnalysisResult([shortCode |-> 1, isVideo |-> FALSE],
                          AnalyzeImageContent(env.scene), cr).status = "accepted"
         IN IF meets /\ gcs /\ env.late \in {"upload_raises", "remove_raises"}
            THEN "late_exception"
            ELSE IF ~env.scene.is_likely_video /\ env.scene.classifier = "raises"
            THEN "classifier_exception"
            ELSE "analysed"

(* --------------------- BatchProcessor.process_batch -------------------- *)
NoResults == [returned |-> FALSE]
NoCriteria == [content_categories |-> {}, min_quality_score |-> 0,
               min_category_score |-> 0, min_overall_score |-> 0]

(* no file was downloaded *)
NoImage == [decodable |-> FALSE, w |-> 0, h |-> 0]

RunReset ==
    /\ target_count = 0 /\ max_iterations = 0 /\ criteria = NoCriteria
    /\ existing_accepted = {} /\ iteration = 0
    /\ accepted_images = <<>> /\ iteration_results = <<>>
    /\ total_posts_scraped = 0 /\ total_posts_processed = 0
    /\ posts = <<>> /\ unprocessed_posts = <<>> /\ idx = 0
    /\ iteration_accepted = <<>> /\ results = NoResults
    /\ scrape_requests = 0 /\ raw_posts = <<>> /\ photos_returned = 0
    /\ last_round = "none" /\ last_fate = "none" /\ last_result = NoResult
    /\ last_image = NoImage
    /\ stage_entries = [x \in ItemIds |-> 0]
    /\ ledger_at_init = {}
    /\ slept = FALSE

NoGateAnalysis == [present |-> FALSE]
GateIdle ==
    /\ gate_pc = "idle" /\ gate_scene = NoScene /\ gate_criteria = NoCriteria
    /\ gate_analysis = NoGateAnalysis /\ gate_result = NoResult

NoSave == [io |-> "none", image_id |-> 0]
TrackerAuxIdle ==
    /\ last_call = EmptyLedger /\ marks = 0
    /\ tracker_proc = "running" /\ last_save = NoSave

NoCleanup == [state |-> "idle", days |-> 0, before |-> EmptyLedger,
              file_before |-> [valid |-> TRUE, data |-> EmptyLedger]]
ExtraIdle ==
    /\ other_images = EmptyLedger /\ other_call = EmptyLedger
    /\ clock = 0 /\ id_marked = {}
    /\ cleanup = NoCleanup

NoInput == [file |-> [name |-> "photo", img |-> CorruptImage, play_match |-> 0,
                      progress_bar |-> FALSE],
            classifier |-> "ok", labels |-> <<>>]
NoDetection == [is_likely_video |-> FALSE, confidence_score |-> 0,
                indicators |-> [x \in {} |-> 0]]
AnalyzeIdle ==
    /\ an_pc = "idle" /\ an_input = NoInput /\ an_detect = NoDetection
    /\ an_calls = <<>> /\ an_analysis = NoGateAnalysis

(* Ledgers that earlier runs leave in the tracking file: none; item 1       *)
(* accepted; item 1 rejected as not landscape and the last item accepted.   *)
PhotoPost(i) == [shortCode |-> i, isVideo |-> FALSE]
OriginalPath(i) == [dir |-> "original", file |-> i]
GoodScene == Scene(Image(16, 9), FALSE, "ok", MountainLabel)
AcceptedEntry(i) ==
    TrackingEntry(PhotoPost(i), "accepted",
                  SomeAnalysis(AnalyzeImageContent(GoodScene)), OriginalPath(i))
PriorLedgers ==
    {EmptyLedger,
     Upsert(EmptyLedger, 1, AcceptedEntry(1)),
     Upsert(Upsert(EmptyLedger, 1,
                   TrackingEntry(PhotoPost(1), "rejected", NoAnalysis, OriginalPath(1))),
            NumItems, AcceptedEntry(NumItems))}

(* after construction of BatchProcessor: the tracker has loaded the ledger  *)
(* of the earlier runs                                                      *)
Init ==
    /\ apify_client \in BOOLEAN
    /\ profiles_configured \in BOOLEAN
    /\ use_gcs \in BOOLEAN
    /\ processed_images \in PriorLedgers
    /\ tracking_file = [valid |-> TRUE, data |-> processed_images]
    /\ pc = "init"
    /\ marked_posts = {} /\ deduped_ids = {}
    /\ RunReset
    /\ TrackerAuxIdle
    /\ ExtraIdle
    /\ GateIdle
    /\ AnalyzeIdle

(* lines 90-117: the call, the defaults, INIT; choices: the criteria the    *)
(* arguments and the configuration can give                                 *)
StartBatchWith(choices) ==
    /\ pc = "init"
    /\ IF ~apify_client
       THEN /\ pc' = "raised"
            /\ UNCHANGED <<param_vars, existing_accepted, ledger_at_init>>
       ELSE /\ \E tc \in 0..MaxTarget, mi \in 0..MaxIterations, cr \in choices :
                 /\ target_count' = tc
                 /\ max_iterations' = mi
                 /\ criteria' = cr
            /\ existing_accepted' = GetAcceptedImages(processed_images)
            /\ ledger_at_init' = {k \in DOMAIN processed_images :
                                    processed_images[k].status = "accepted"}
            /\ pc' = "loop"
    /\ UNCHANGED aux_vars
    /\ UNCHANGED <<config_vars, tracker_vars, iteration, accepted_images,
                   iteration_results, total_posts_scraped, total_posts_processed,
                   posts, unprocessed_posts, idx, iteration_accepted, results,
                   scrape_requests, raw_posts, photos_returned, last_round,
                   last_fate, last_result, last_image, marked_posts, deduped_ids,
                   stage_entries, slept>>

TargetReached_NewOnly == Len(accepted_images) >= target_count
(* lines 121-126: current_accepted_count >= target_count *)
TargetReached ==
    Len(accepted_images) + Cardinality(existing_accepted) >= target_count

StartBatch == StartBatchWith(CriteriaChoices)

LoopHead_OffByOne ==
    /\ pc = "loop"
    /\ IF iteration > max_iterations THEN pc' = "final"
       ELSE IF TargetReached
       THEN pc' = "final"
       ELSE pc' = "scrape"
    /\ last_round' = "none"
    /\ raw_posts' = <<>>
    /\ UNCHANGED aux_vars
    /\ UNCHANGED <<config_vars, tracker_vars, param_vars, existing_accepted,
                   iteration, accepted_images, iteration_results,
                   total_posts_scraped, total_posts_processed, posts,
                   unprocessed_posts, idx, iteration_accepted, results,
                   scrape_requests, photos_returned,
                   last_fate, last_result, last_image, marked_posts, deduped_ids,
                   stage_entries, ledger_at_init, slept>>

(* lines 119-129: the for statement and the target check *)
LoopHead ==
    /\ pc = "loop"
    /\ IF iteration >= max_iterations THEN pc' = "final"
       ELSE IF TargetReached
       THEN pc' = "final"
       ELSE pc' = "scrape"
    /\ last_round' = "none"
    /\ raw_posts' = <<>>
    /\ UNCHANGED aux_vars
    /\ UNCHANGED <<config_vars, tracker_vars, param_vars, existing_accepted,
                   iteration, accepted_images, iteration_results,
                   total_posts_scraped, total_posts_processed, posts,
                   unprocessed_posts, idx, iteration_accepted, results,
                   scrape_requests, photos_returned,
                   last_fate, last_result, last_image, marked_posts, deduped_ids,
                   stage_entries, ledger_at_init, slept>>

(* _scrape_posts_iteration: what it returns for an upstream outcome *)
ScrapeOutcomes == {"run_fails", "no_dataset", "fetch_fails", "ok"}
PhotoPosts_NoFilter(raw) == raw
PhotoPosts(raw) == SelectSeq(raw, LAMBDA p : ~p.isVideo)
ScrapePostsIteration(outcome, raw) ==
    IF ~profiles_configured \/ outcome # "ok" THEN <<>> ELSE PhotoPosts(raw)

(* line 137: `continue` takes the loop to its next iteration *)
AfterEmptyScrape_Break == "final"
AfterEmptyScrape == "loop"

(* lines 131-137: SCRAPE, and `continue` on an empty result *)
Scrape ==
    /\ pc = "scrape"
    /\ \E outcome \in ScrapeOutcomes, raw \in RawResults :
         LET got == ScrapePostsIteration(outcome, raw)
             returned == IF profiles_configured /\ outcome = "ok" THEN raw ELSE <<>>
         IN /\ scrape_requests' = scrape_requests + (IF profiles_configured THEN 1 ELSE 0)
            /\ raw_posts' = returned
            /\ photos_returned' = photos_returned
                   + Cardinality({k \in DOMAIN returned : ~returned[k].isVideo})
            /\ posts' = got
            /\ slept' = FALSE
            /\ IF got = <<>>
               THEN /\ iteration' = iteration + 1
                    /\ last_round' = IF returned = <<>> THEN "scrape_failed"
                                     ELSE "only_videos"
                    /\ pc' = AfterEmptyScrape
               ELSE /\ pc' = "dedupe"
                    /\ last_round' = "none"
                    /\ UNCHANGED iteration
    /\ UNCHANGED aux_vars
    /\ UNCHANGED <<config_vars, tracker_vars, param_vars, existing_accepted,
                   accepted_images, iteration_results, total_posts_scraped,
                   total_posts_processed, unprocessed_posts, idx,
                   iteration_accepted, results, last_fate, last_result, last_image,
                   marked_posts, deduped_ids, stage_entries, ledger_at_init>>

(* lines 139-147: DEDUPE, and `continue` when nothing is new *)
Dedupe ==
    /\ pc = "dedupe"
    /\ total_posts_scraped' = total_posts_scraped + Len(posts)
    /\ deduped_ids' = deduped_ids \cup DOMAIN processed_images
    /\ iteration_accepted' = <<>>
    /\ raw_posts' = <<>>
    /\ LET unprocessed == GetUnprocessedPosts(processed_images, posts)
       IN IF unprocessed = <<>>
          THEN /\ iteration' = iteration + 1
               /\ last_round' = "nothing_new"
               /\ posts' = <<>> /\ unprocessed_posts' = <<>> /\ idx' = 0
               /\ pc' = "loop"
          ELSE /\ unprocessed_posts' = unprocessed
               /\ idx' = 1
               /\ pc' = "per_item"
               /\ UNCHANGED <<iteration, last_round, posts>>
    /\ UNCHANGED aux_vars
    /\ UNCHANGED <<config_vars, tracker_vars, param_vars, existing_accepted,
                   accepted_images, iteration_results, total_posts_processed,
                   results, scrape_requests, photos_returned,
                   last_fate, last_result, last_image, marked_posts, stage_entries,
                   ledger_at_init, slept>>

RoundOver_AtTarget(accepted_in_round) ==
    \/ idx = Len(unprocessed_posts)
    \/ Len(accepted_images) + Len(accepted_in_round)
          + Cardinality(existing_accepted) >= target_count
(* line 250: the for statement of _process_posts_iteration ends with the    *)
(* list, whatever has been accepted                                         *)
RoundOver(accepted_in_round) == idx = Len(unprocessed_posts)

(* _process_posts_iteration, one pass of its for statement *)
ProcessPost ==
    /\ pc = "per_item"
    /\ \E env \in ItemEnvs :
         LET post == unprocessed_posts[idx]
             io == "ok"
             out == DownloadAndAnalyzeImage(
                        [mem |-> processed_images, file |-> tracking_file],
                        post, env, io, criteria, use_gcs)
         IN /\ processed_images' = out.t.mem
            /\ tracking_file' = out.t.file
            /\ iteration_accepted' =
                   IF out.result.returned /\ out.result.status = "accepted"
                   THEN Append(iteration_accepted, out.result.shortcode)
                   ELSE iteration_accepted
            /\ last_fate' = FateOf(env, criteria, use_gcs)
            /\ last_result' = out.result
            /\ last_image' = IF env.kind = "downloaded" THEN env.scene.img ELSE NoImage
            /\ marked_posts' = marked_posts \cup {post}
            /\ stage_entries' = [stage_entries EXCEPT ![post.shortCode] = @ + 1]
    /\ idx' = idx + 1
    /\ pc' = IF RoundOver(iteration_accepted') THEN "iter_end" ELSE "per_item"
    /\ UNCHANGED aux_vars
    /\ UNCHANGED <<config_vars, param_vars, existing_accepted, iteration,
                   accepted_images, iteration_results, total_posts_scraped,
                   total_posts_processed, posts, unprocessed_posts, results,
                   scrape_requests, raw_posts, photos_returned, last_round,
                   deduped_ids, ledger_at_init, slept>>

(* lines 158-174: the round's bookkeeping *)
IterEnd ==
    /\ pc = "iter_end"
    /\ accepted_images' = accepted_images \o iteration_accepted
    /\ total_posts_processed' = total_posts_processed + Len(unprocessed_posts)
    /\ iteration_results' = Append(iteration_results,
           [iteration |-> iteration + 1, posts_scraped |-> Len(posts),
            posts_processed |-> Len(unprocessed_posts),
            accepted |-> Len(iteration_accepted)])
    /\ iteration' = iteration + 1
    /\ last_round' = "processed"
    /\ slept' = (iteration < max_iterations - 1)
    /\ posts' = <<>> /\ unprocessed_posts' = <<>> /\ idx' = 0
    /\ iteration_accepted' = <<>>
    /\ last_fate' = "none" /\ last_result' = NoResult /\ last_image' = NoImage
    /\ pc' = "loop"
    /\ UNCHANGED aux_vars
    /\ UNCHANGED <<config_vars, tracker_vars, param_vars, existing_accepted,
                   total_posts_scraped, results, scrape_requests, raw_posts,
                   photos_returned, marked_posts,
                   deduped_ids, stage_entries, ledger_at_init>>

BatchResults_NewOnly ==
    LET final_accepted_count == Len(accepted_images) + Cardinality(existing_accepted)
    IN [returned |-> TRUE,
        success |-> Len(accepted_images) >= target_count,
        target_count |-> target_count,
        accepted_count |-> final_accepted_count,
        new_accepted_count |-> Len(accepted_images),
        existing_accepted_count |-> Cardinality(existing_accepted),
        total_posts_scraped |-> total_posts_scraped,
        total_posts_processed |-> total_posts_processed,
        iterations_completed |-> Len(iteration_results),
        accepted_images |-> accepted_images,
        tracker_stats |-> GetStats(processed_images)]

(* lines 176-207: DONE *)
BatchResults ==
    LET final_accepted_count == Len(accepted_images) + Cardinality(existing_accepted)
    IN [returned |-> TRUE,
        success |-> final_accepted_count >= target_count,
        target_count |-> target_count,
        accepted_count |-> final_accepted_count,
        new_accepted_count |-> Len(accepted_images),
        existing_accepted_count |-> Cardinality(existing_accepted),
        total_posts_scraped |-> total_posts_scraped,
        total_posts_processed |-> total_posts_processed,
        iterations_completed |-> Len(iteration_results),
        accepted_images |-> accepted_images,
        tracker_stats |-> GetStats(processed_images)]

Finish ==
    /\ pc = "final"
    /\ results' = BatchResults
    /\ pc' = "done"
    /\ UNCHANGED aux_vars
    /\ UNCHANGED <<config_vars, tracker_vars, param_vars, existing_accepted,
                   iteration, accepted_images, iteration_results,
                   total_posts_scraped, total_posts_processed, posts,
                   unprocessed_posts, idx, iteration_accepted, scrape_requests,
                   raw_posts, photos_returned, last_round, last_fate,
                   last_result, last_image, marked_posts, deduped_ids, stage_entries,
                   ledger_at_init, slept>>

Next ==
    \/ StartBatch
    \/ LoopHead
    \/ Scrape
    \/ Dedupe
    \/ ProcessPost
    \/ IterEnd
    \/ Finish

Spec == Init /\ [][Next]_vars

(* the controller is one sequential thread: a step that can be taken is taken *)
Controller == StartBatch \/ LoopHead \/ Scrape \/ Dedupe \/ ProcessPost \/ IterEnd \/ Finish
FairSpec == Init /\ [][Next]_vars /\ WF_vars(Controller)

(* ---- process_batch when ENHANCED_CONTENT_CATEGORIES is set to nothing --- *)
(* config.py line 31 gives [] for an empty value, and lines 96-97 replace   *)
(* a missing list by that; the caller lowers min_overall_score or not       *)
BlankCategoryCriteria ==
    {[content_categories |-> {},
      min_quality_score |-> MIN_QUALITY_SCORE,
      min_category_score |-> MIN_CATEGORY_SCORE,
      min_overall_score |-> mo] : mo \in {400, MIN_OVERALL_SCORE}}

BlankConfigInit ==
    /\ Init
    /\ profiles_configured /\ ~use_gcs
    /\ processed_images = EmptyLedger

StartBlankConfig == StartBatchWith(BlankCategoryCriteria)
BlankConfigNext ==
    \/ StartBlankConfig
    \/ LoopHead
    \/ Scrape
    \/ Dedupe
    \/ ProcessPost
    \/ IterEnd
    \/ Finish
BlankConfigSpec == BlankConfigInit /\ [][BlankConfigNext]_vars

(* ------------- the tracker used directly: any sequence of calls -------- *)
GoodAnalysis == AnalyzeImageContent(GoodScene)
MarkArgumentsOf(i) ==
    {[post |-> PhotoPost(i), status |-> st, analysis |-> ap[1], local_path |-> ap[2]] :
        st \in {"accepted", "rejected", "error"},
        ap \in {<<NoAnalysis, NoPath>>, <<NoAnalysis, OriginalPath(i)>>,
               <<SomeAnalysis(GoodAnalysis), OriginalPath(i)>>}}
MarkArguments == UNION {MarkArgumentsOf(i) : i \in ItemIds}

ControllerIdle ==
    /\ apify_client = TRUE /\ profiles_configured = TRUE /\ use_gcs = FALSE
    /\ pc = "init" /\ marked_posts = {} /\ deduped_ids = {}
    /\ RunReset

TrackerInit ==
    /\ ControllerIdle
    /\ processed_images = EmptyLedger
    /\ tracking_file = [valid |-> TRUE, data |-> EmptyLedger]
    /\ TrackerAuxIdle
    /\ ExtraIdle
    /\ GateIdle
    /\ AnalyzeIdle

controller_vars ==
    <<config_vars, pc, param_vars, existing_accepted, iteration,
      accepted_images, iteration_results, total_posts_scraped,
      total_posts_processed, posts, unprocessed_posts, idx, iteration_accepted,
      results, scrape_requests, raw_posts, photos_returned, last_round,
      last_fate, last_result, last_image, marked_posts, deduped_ids, stage_entries,
      ledger_at_init, slept>>

(* ImageTracker.mark_processed *)
TrackerMarkWith(ios) ==
    /\ marks < MaxMarks
    /\ tracker_proc = "running"
    /\ marks' = marks + 1
    /\ \E call \in MarkArguments, io \in ios :
        LET t == MarkProcessed([mem |-> processed_images, file |-> tracking_file],
                               call.post, call.status, call.analysis,
                               call.local_path, io)
        IN /\ processed_images' = t.mem
           /\ tracking_file' = t.file
           /\ last_call' = Upsert(last_call, GenerateImageId(call.post), call)
           /\ last_save' = [io |-> io, image_id |-> GenerateImageId(call.post)]
    /\ UNCHANGED <<controller_vars, extra_vars, gate_vars, analyze_vars, tracker_proc>>

TrackerMark == TrackerMarkWith(SaveOutcomes)

TrackerNext == TrackerMark
TrackerSpec == TrackerInit /\ [][TrackerNext]_vars

(* ------ the tracker's process killed and a new tracker constructed ----- *)
(* mark_processed whose writes succeed *)
DurableMark == TrackerMarkWith({"ok"})

(* The process dies inside mark_processed, after line 138: before the file  *)
(* is opened, after open(..., 'w') has truncated it and before json.dump    *)
(* has written it all, or after the write.  The call never returns.         *)
CrashPoints == {"before_open", "in_write", "after_write"}
CrashInMarkProcessed ==
    /\ tracker_proc = "running"
    /\ \E call \in MarkArguments, point \in CrashPoints :
        LET mem == Upsert(processed_images, GenerateImageId(call.post),
                          TrackingEntry(call.post, call.status, call.analysis,
                                        call.local_path))
        IN /\ processed_images' = mem
           /\ tracking_file' =
                  CASE point = "before_open" -> tracking_file
                    [] point = "in_write" ->
                         SaveTrackingData(mem, tracking_file, "write_fails")
                    [] OTHER -> SaveTrackingData(mem, tracking_file, "ok")
           /\ last_save' = [io |-> point, image_id |-> GenerateImageId(call.post)]
    /\ tracker_proc' = "crashed"
    /\ UNCHANGED <<controller_vars, extra_vars, gate_vars, analyze_vars, last_call, marks>>

(* ImageTracker.__init__ in a new process on the same directory *)
Restart ==
    /\ tracker_proc = "crashed"
    /\ processed_images' = LoadTrackingData(tracking_file)
    /\ tracker_proc' = "restarted"
    /\ UNCHANGED <<controller_vars, extra_vars, gate_vars, analyze_vars, tracking_file,
                   last_call, marks, last_save>>

CrashNext == DurableMark \/ CrashInMarkProcessed \/ Restart
CrashSpec == TrackerInit /\ [][CrashNext]_vars

(* -------------- the tracker used directly: cleanup_old_entries --------- *)
StampedEntry(i, stamp) ==
    [image_id |-> i, status |-> "accepted", local_path |-> OriginalPath(i),
     processed_at |-> stamp]
StampedLedgersOn(D) == {[i \in D |-> StampedEntry(i, f[i])] : f \in [D -> Stamps]}
StampedLedgers == UNION {StampedLedgersOn(D) : D \in SUBSET ItemIds}

CleanupInit ==
    /\ ControllerIdle
    /\ processed_images \in StampedLedgers
    /\ tracking_file = [valid |-> TRUE, data |-> processed_images]
    /\ TrackerAuxIdle
    /\ GateIdle
    /\ AnalyzeIdle
    /\ other_images = EmptyLedger /\ other_call = EmptyLedger
    /\ clock = 0 /\ id_marked = {}
    /\ \E days \in 0..MaxAge :
          cleanup = [state |-> "called", days |-> days, before |-> processed_images,
                     file_before |-> tracking_file]

(* ImageTracker.cleanup_old_entries *)
Cleanup ==
    /\ cleanup.state = "called"
    /\ \E io \in SaveOutcomes :
         LET out == CleanupOldEntries([mem |-> processed_images, file |-> tracking_file],
                                      cleanup.days, io)
         IN /\ processed_images' = out.t.mem
            /\ tracking_file' = out.t.file
            /\ cleanup' = [cleanup EXCEPT
                              !.state = IF out.raised THEN "raised" ELSE "returned"]
    /\ UNCHANGED <<controller_vars, tracker_aux, gate_vars, analyze_vars,
                   other_images, other_call, clock, id_marked>>

CleanupNext == Cleanup
CleanupSpec == CleanupInit /\ [][CleanupNext]_vars

(* ------- the tracker used directly: records of any shape, over time ---- *)
Records == [shortCode : {0, 1}, id : {0, 21}, displayUrl : {0, 1}, images : {0, 2}]

IdInit ==
    /\ ControllerIdle
    /\ processed_images = EmptyLedger
    /\ tracking_file = [valid |-> TRUE, data |-> EmptyLedger]
    /\ TrackerAuxIdle
    /\ ExtraIdle
    /\ GateIdle
    /\ AnalyzeIdle

(* a second passes *)
IdTick ==
    /\ clock < MaxClock
    /\ clock' = clock + 1
    /\ UNCHANGED <<controller_vars, tracker_vars, tracker_aux, gate_vars,
                   analyze_vars, other_images, other_call, id_marked, cleanup>>

(* mark_processed(post_data, 'error'), as for a record without image URL *)
IdMark ==
    /\ marks < MaxMarks
    /\ marks' = marks + 1
    /\ \E post_data \in Records :
         LET image_id == GenerateImageIdAt(post_data, clock)
             mem == Upsert(processed_images, image_id,
                           [image_id |-> image_id, status |-> "error",
                            local_path |-> NoPath])
         IN /\ processed_images' = mem
            /\ tracking_file' = SaveTrackingData(mem, tracking_file, "ok")
            /\ id_marked' = id_marked \cup {post_data}
    /\ UNCHANGED <<controller_vars, last_call, tracker_proc, last_save, gate_vars,
                   analyze_vars, other_images, other_call, clock, cleanup>>

IdNext == IdTick \/ IdMark
IdSpec == IdInit /\ [][IdNext]_vars

(* ------------- two trackers opened on the same tracking file ----------- *)
(* mark_processed of the second instance: its own ledger, the shared file *)
OtherMark ==
    /\ marks < MaxMarks
    /\ marks' = marks + 1
    /\ \E call \in MarkArguments :
        LET t == MarkProcessed([mem |-> other_images, file |-> tracking_file],
                               call.post, call.status, call.analysis,
                               call.local_path, "ok")
        IN /\ other_images' = t.mem
           /\ tracking_file' = t.file
           /\ other_call' = Upsert(other_call, GenerateImageId(call.post), call)
    /\ UNCHANGED <<controller_vars, processed_images, last_call, tracker_proc,
                   last_save, gate_vars, analyze_vars, clock, id_marked, cleanup>>

TwoTrackerNext == DurableMark \/ OtherMark
TwoTrackerSpec == TrackerInit /\ [][TwoTrackerNext]_vars

(* -------- the filter used directly: meets_content_criteria + reason ----- *)
Confidences == {500, 900}
Labels == [text : Vocabulary, score : Confidences]
GateScenes ==
    {Scene(img, v, c, l) :
        img \in {Image(16, 9), Image(6, 4), Image(30, 10), Image(30, 24)},
        v \in BOOLEAN, c \in {"ok", "raises"}, l \in SeqsUpTo(Labels, MaxLabels)}
GateCriteria ==
    [content_categories : {ENHANCED_CONTENT_CATEGORIES, {"water", "portrait"}, {}},
     min_quality_score : {0, MIN_QUALITY_SCORE},
     min_category_score : {0, MIN_CATEGORY_SCORE},
     min_overall_score : {0, MIN_OVERALL_SCORE}]

GateInit ==
    /\ ControllerIdle
    /\ processed_images = EmptyLedger
    /\ tracking_file = [valid |-> TRUE, data |-> EmptyLedger]
    /\ TrackerAuxIdle
    /\ ExtraIdle
    /\ AnalyzeIdle
    /\ gate_pc = "called"
    /\ gate_scene \in GateScenes
    /\ gate_criteria \in GateCriteria
    /\ gate_analysis = NoGateAnalysis
    /\ gate_result = NoResult

(* meets_content_criteria line 430: analyze_image_content *)
GateAnalyze ==
    /\ gate_pc = "called"
    /\ gate_analysis' = [present |-> TRUE, value |-> AnalyzeImageContent(gate_scene)]
    /\ gate_pc' = "analysed"
    /\ UNCHANGED <<controller_vars, extra_vars, tracker_vars, tracker_aux, analyze_vars, gate_scene,
                   gate_criteria, gate_result>>

(* lines 432-455 and the caller's result dictionary *)
GateDecide ==
    /\ gate_pc = "analysed"
    /\ gate_result' = AnalysisResult(PhotoPost(1), gate_analysis.value, gate_criteria)
    /\ gate_pc' = "decided"
    /\ UNCHANGED <<controller_vars, extra_vars, tracker_vars, tracker_aux, analyze_vars, gate_scene,
                   gate_criteria, gate_analysis>>

GateNext == GateAnalyze \/ GateDecide
GateSpec == GateInit /\ [][GateNext]_vars

(* ------- the filter used directly: analyze_image_content, by step ------ *)
PlayMatches == {0, 600, 1000}
AnalyzeFiles ==
    {[name |-> n, img |-> CorruptImage, play_match |-> 0, progress_bar |-> FALSE] :
        n \in FileNames}
    \cup [name : FileNames, img : {Image(16, 9), Image(6, 4), Image(9, 16)},
          play_match : PlayMatches, progress_bar : BOOLEAN]
AnalyzeInputs ==
    [file : AnalyzeFiles, classifier : {"ok", "raises", "no_client"},
     labels : SeqsUpTo(Labels, MaxLabels)]

AnalyzeInit ==
    /\ ControllerIdle
    /\ processed_images = EmptyLedger
    /\ tracking_file = [valid |-> TRUE, data |-> EmptyLedger]
    /\ TrackerAuxIdle
    /\ ExtraIdle
    /\ GateIdle
    /\ an_pc = "called"
    /\ an_input \in AnalyzeInputs
    /\ an_detect = NoDetection
    /\ an_calls = <<>>
    /\ an_analysis = NoGateAnalysis

AnalyzedScene ==
    Scene(an_input.file.img, an_detect.is_likely_video, an_input.classifier,
          an_input.labels)

AnalyzeDetect_NoShortCircuit ==
    /\ an_pc = "called"
    /\ an_detect' = DetectVideoIndicators(an_input.file)
    /\ an_calls' = Append(an_calls, "detector")
    /\ an_pc' = "vision"
    /\ UNCHANGED an_analysis
    /\ UNCHANGED <<controller_vars, extra_vars, tracker_vars, tracker_aux, gate_vars, an_input>>
(* lines 130-139: the detector, and the return for a video thumbnail *)
AnalyzeDetect ==
    /\ an_pc = "called"
    /\ an_detect' = DetectVideoIndicators(an_input.file)
    /\ an_calls' = Append(an_calls, "detector")
    /\ IF an_detect'.is_likely_video
       THEN /\ an_analysis' =
                   [present |-> TRUE,
                    value |-> AnalyzeImageContent(
                        Scene(an_input.file.img, TRUE, an_input.classifier,
                              an_input.labels))]
            /\ an_pc' = "returned"
       ELSE /\ an_pc' = "vision"
            /\ UNCHANGED an_analysis
    /\ UNCHANGED <<controller_vars, extra_vars, tracker_vars, tracker_aux, gate_vars, an_input>>

(* lines 141-146: the vision call, made when there is a client *)
AnalyzeVision ==
    /\ an_pc = "vision"
    /\ an_calls' = IF an_input.classifier = "no_client" THEN an_calls
                   ELSE Append(an_calls, "vision")
    /\ an_pc' = "score"
    /\ UNCHANGED <<controller_vars, extra_vars, tracker_vars, tracker_aux, gate_vars, an_input,
                   an_detect, an_analysis>>

(* lines 148-160: category matching and the three scores *)
AnalyzeScore ==
    /\ an_pc = "score"
    /\ an_analysis' = [present |-> TRUE, value |-> AnalyzeImageContent(AnalyzedScene)]
    /\ an_pc' = "returned"
    /\ UNCHANGED <<controller_vars, extra_vars, tracker_vars, tracker_aux, gate_vars, an_input,
                   an_detect, an_calls>>

AnalyzeNext == AnalyzeDetect \/ AnalyzeVision \/ AnalyzeScore
AnalyzeSpec == AnalyzeInit /\ [][AnalyzeNext]_vars

(* ============================ properties ============================== *)
LastPost == unprocessed_posts[idx - 1]
ItemDone == pc \in {"per_item", "iter_end"} /\ idx > 1
Counters == <<total_posts_scraped, total_posts_processed, accepted_images,
              iteration_results>>

(* the steps a call can still take: each round is worth RoundSpan *)
RoundSpan == MaxPosts + 6
WorkLeft ==
    CASE pc = "init" -> (MaxIterations + 1) * RoundSpan
      [] pc = "loop" -> (max_iterations - iteration) * RoundSpan + MaxPosts + 5
      [] pc = "scrape" -> (max_iterations - iteration) * RoundSpan + MaxPosts + 4
      [] pc = "dedupe" -> (max_iterations - iteration) * RoundSpan + MaxPosts + 3
      [] pc = "per_item" -> (max_iterations - iteration) * RoundSpan
                            + (Len(unprocessed_posts) - idx) + 3
      [] pc = "iter_end" -> (max_iterations - iteration) * RoundSpan + 2
      [] pc = "final" -> 1
      [] OTHER -> 0
(* C1: one process_batch call with max_iterations = M submits at most M     *)
(* scrape jobs whatever the upstream does, and it ends: every step of the   *)
(* call lowers a natural-number measure of the work left, and the call      *)
(* reaches DONE and returns its result dictionary.                          *)
C1_AtMostMRounds ==
    /\ [][/\ scrape_requests' <= max_iterations'
          /\ iteration' <= max_iterations'
          /\ WorkLeft' >= 0
          /\ WorkLeft' < WorkLeft]_vars
    /\ (apify_client => <>(pc = "done" /\ results.returned))
C1_Witness ==
    /\ pc = "done" /\ results.returned
    /\ max_iterations = MaxIterations
    /\ scrape_requests = max_iterations
    /\ ~results.success

(* C2: the returned success flag is true exactly when the new accepted      *)
(* items plus the accepted entries counted once at INIT reach target_count; *)
(* ending under target is a normal return, and only a missing client raises *)
C2_SuccessIffTarget ==
    /\ pc = "done" =>
         /\ results.returned
         /\ results.target_count = target_count
         /\ results.new_accepted_count = Len(accepted_images)
         /\ results.existing_accepted_count = Cardinality(ledger_at_init)
         /\ results.success <=>
              (results.new_accepted_count + results.existing_accepted_count
                 >= results.target_count)
    /\ pc = "raised" => ~apify_client
C2_Witness ==
    /\ pc = "done" /\ ~results.success
    /\ iteration = max_iterations /\ max_iterations > 0
    /\ results.existing_accepted_count > 0
    /\ results.new_accepted_count = 0
    /\ GetProcessedCount(processed_images, "rejected") > 0

(* C3: an item that has a ledger entry when a DEDUPE step runs never enters *)
(* download/analysis afterwards and its entry is never changed              *)
C3_KnownItemsUntouched ==
    [][\A x \in deduped_ids' :
          /\ x \in DOMAIN processed_images
          /\ x \in DOMAIN processed_images'
          /\ processed_images'[x] = processed_images[x]
          /\ stage_entries'[x] = stage_entries[x]]_vars
C3_Witness ==
    /\ pc = "per_item" /\ iteration = 1
    /\ Len(posts) > Len(unprocessed_posts)
    /\ \E k \in DOMAIN posts :
          /\ posts[k] \in marked_posts
          /\ posts[k].shortCode \in deduped_ids
          /\ stage_entries[posts[k].shortCode] = 1

ControllerFaults == {"no_url", "setup_raises", "download_fail", "late_exception"}
C6_EveryFaultIsError ==
    (ItemDone /\ last_fate \in {"download_fail", "decode_fail", "classifier_exception"})
       => processed_images[LastPost.shortCode].status = "error"

(* C7: a round whose scrape fails or returns nothing writes no ledger entry *)
(* and changes no counter, raises nothing, and unless it was the last round *)
(* the controller starts the next round and submits a new scrape job        *)
C7_TransientFaultNotFatal ==
    [][/\ (pc = "scrape" /\ pc' # "dedupe") =>
             /\ pc' = "loop"
             /\ iteration' = iteration + 1
             /\ UNCHANGED <<processed_images, Counters, marked_posts>>
       /\ (pc = "loop" /\ last_round \in {"scrape_failed", "only_videos"}
             /\ iteration < max_iterations) => pc' = "scrape"
       /\ (pc = "scrape" /\ profiles_configured) =>
             scrape_requests' = scrape_requests + 1
       /\ pc' = "raised" => pc = "init"]_vars
C7_Witness ==
    /\ pc = "dedupe" /\ iteration = 1
    /\ scrape_requests = 2
    /\ total_posts_scraped = 0
    /\ processed_images = EmptyLedger

(* C8: a record the upstream marks as video never reaches DEDUPE or the     *)
(* per-item stage, is not counted as scraped or processed, and is never     *)
(* passed to mark_processed                                                 *)
C8_VideosDiscarded ==
    /\ \A k \in DOMAIN posts : ~posts[k].isVideo
    /\ \A k \in DOMAIN unprocessed_posts : ~unprocessed_posts[k].isVideo
    /\ \A p \in marked_posts : ~p.isVideo
    /\ pc # "dedupe" => total_posts_scraped = photos_returned
    /\ total_posts_processed <= total_posts_scraped
C8_Witness ==
    /\ pc = "dedupe"
    /\ \E k \in DOMAIN raw_posts : raw_posts[k].isVideo
    /\ Len(posts) = 1 /\ Len(raw_posts) = 2

ReasonOfCheck(check) ==
    CASE check = "video" -> "video thumbnail"
      [] check = "quality" -> "quality score"
      [] check = "category" -> "category criteria not met"
      [] check = "overall" -> "overall score"
      [] OTHER -> "none"
(* C9: the reported rejection reason names the first failing check in the   *)
(* order video thumbnail, quality, wanted category, overall                 *)
C9_ReasonNamesFirstFailingCheck ==
    (gate_pc = "decided" /\ gate_result.status = "rejected") =>
        gate_result.rejection_reason =
            ReasonOfCheck(FirstFailingCheck(gate_analysis.value,
                gate_criteria.content_categories, gate_criteria.min_quality_score,
                gate_criteria.min_category_score, gate_criteria.min_overall_score))

(* C10: an analysis flagged as video thumbnail is always rejected with the  *)
(* reason "video thumbnail", whatever the scores and thresholds             *)
C10_VideoThumbnailPrecedence ==
    (gate_pc = "decided" /\ gate_analysis.value.is_video_thumbnail) =>
        /\ gate_result.status = "rejected"
        /\ gate_result.rejection_reason = "video thumbnail"
C10_Witness ==
    /\ gate_pc = "decided"
    /\ gate_analysis.value.is_video_thumbnail
    /\ gate_criteria.min_quality_score = 0
    /\ gate_criteria.min_category_score = 0
    /\ gate_criteria.min_overall_score = 0
    /\ gate_result.rejection_reason = "video thumbnail"

(* the score the gate compares with min_category: the largest score of a    *)
(* wanted category, a category the analysis does not hold counting as 0     *)
BestWanted(analysis, wanted) ==
    MaxOfSet({IF c \in DOMAIN analysis.category_matches
              THEN analysis.category_matches[c].score ELSE 0 : c \in wanted})
(* C11: the gate accepts exactly when the analysis is no video thumbnail,   *)
(* quality_score >= min_quality, no category is wanted or the best wanted   *)
(* category score is >= min_category, and overall_score >= min_overall; a   *)
(* score equal to its threshold passes                                      *)
C11_GateAcceptsIff ==
    gate_pc = "decided" =>
        LET a == gate_analysis.value
            cr == gate_criteria
        IN (gate_result.status = "accepted") <=>
              /\ ~a.is_video_thumbnail
              /\ a.quality_score >= cr.min_quality_score
              /\ \/ cr.content_categories = {}
                 \/ BestWanted(a, cr.content_categories) >= cr.min_category_score
              /\ a.overall_score >= cr.min_overall_score
C11_Witness ==
    /\ gate_pc = "decided" /\ gate_result.status = "accepted"
    /\ gate_criteria.content_categories = ENHANCED_CONTENT_CATEGORIES
    /\ gate_criteria.min_category_score = MIN_CATEGORY_SCORE
    /\ BestWanted(gate_analysis.value, gate_criteria.content_categories)
          = MIN_CATEGORY_SCORE

(* C12: the overall_score of every analysis of a decodable image lies in    *)
(* [0, 1]                                                                   *)
C12_OverallScoreBounded ==
    (gate_pc # "called" /\ gate_scene.img.decodable) =>
        /\ gate_analysis.value.overall_score >= 0
        /\ gate_analysis.value.overall_score <= 1000

(* C13: for a file that cannot be decoded as an image, whatever its name,   *)
(* detect_video_indicators returns is_likely_video = false and              *)
(* confidence_score = 0.0                                                   *)
C13_DetectorFailSafe ==
    (an_pc \notin {"idle", "called"} /\ ~an_input.file.img.decodable) =>
        /\ ~an_detect.is_likely_video
        /\ an_detect.confidence_score = 0

(* C14: the detector runs before the vision classifier, and for a flagged   *)
(* image the classifier is never invoked and the analysis returned has      *)
(* overall_score, quality_score and print_suitability 0 and no category     *)
(* matches                                                                  *)
C14_DetectorFirstAndShortCircuit ==
    /\ \A k \in DOMAIN an_calls :
          an_calls[k] = "vision" => \E j \in 1..(k - 1) : an_calls[j] = "detector"
    /\ (an_pc \notin {"idle", "called"} /\ an_detect.is_likely_video) =>
          /\ \A k \in DOMAIN an_calls : an_calls[k] # "vision"
          /\ an_pc = "returned"
          /\ an_analysis.present
          /\ an_analysis.value.is_video_thumbnail
          /\ an_analysis.value.overall_score = 0
          /\ an_analysis.value.quality_score = 0
          /\ an_analysis.value.print_suitability = 0
          /\ DOMAIN an_analysis.value.category_matches = {}
C14_Witness ==
    /\ an_pc = "returned"
    /\ an_detect.is_likely_video
    /\ an_input.classifier = "ok"
    /\ an_input.labels # <<>>
    /\ an_input.file.img = Image(16, 9)
    /\ an_calls = <<"detector">>

(* the print suitability of an image no category matches *)
GeometryPrintSuitability(img) ==
    IF ~img.decodable THEN 0
    ELSE LET longest == IF img.w >= img.h THEN img.w ELSE img.h
             size == IF longest >= 30 THEN 1000 ELSE (longest * 1000) \div 30
             aspect == IF 10 * img.w >= 7 * img.h /\ 2 * img.w <= 3 * img.h THEN 1000
                       ELSE IF 2 * img.w >= img.h /\ img.w <= 2 * img.h THEN 800
                       ELSE 500
         IN (size * 4 + aspect * 3) \div 10
(* C15: when there is no vision client or the vision call raises, an        *)
(* analysis is still returned; its labels are empty, every taxonomy         *)
(* category has score 0 and match_count 0, and the three scores come from   *)
(* the image geometry alone                                                 *)
C15_ClassifierUnavailable ==
    /\ an_pc = "returned" => an_analysis.present
    /\ (an_pc = "returned" /\ ~an_detect.is_likely_video
          /\ an_input.classifier # "ok") =>
          LET a == an_analysis.value
              img == an_input.file.img
          IN /\ an_analysis.present
             /\ a.labels = <<>>
             /\ DOMAIN a.category_matches = Taxonomy
             /\ \A c \in Taxonomy :
                   /\ a.category_matches[c].score = 0
                   /\ a.category_matches[c].match_count = 0
             /\ a.quality_score = AssessImageQuality(img)
             /\ a.print_suitability = GeometryPrintSuitability(img)
             /\ a.overall_score =
                   (a.quality_score * 3 + a.print_suitability * 4) \div 10
C15_Witness ==
    /\ an_pc = "returned"
    /\ an_input.classifier = "raises"
    /\ an_input.labels # <<>>
    /\ an_input.file.img = Image(16, 9)
    /\ an_calls = <<"detector", "vision">>
    /\ an_analysis.value.overall_score > 0

(* C16: between two consecutive scrape requests of one process_batch call   *)
(* the controller sleeps, also when the earlier round failed, returned      *)
(* nothing or returned only items already in the ledger                     *)
C16_SleepBetweenScrapes ==
    (pc = "scrape" /\ scrape_requests > 0) => slept

(* C17: no sleep happens after the last round of a process_batch call, also *)
(* when that round reached the target before the last iteration index       *)
C17_NoSleepAfterFinalRound ==
    pc \in {"final", "done"} => ~slept

(* C18: when the ledger loaded at start already holds target_count accepted *)
(* entries, process_batch submits no scrape job, downloads nothing, writes  *)
(* no ledger entry and returns success with new_accepted_count = 0 and      *)
(* iterations_completed = 0                                                 *)
C18_TargetAlreadyMet ==
    (pc \notin {"init", "raised"} /\ Cardinality(ledger_at_init) >= target_count) =>
        /\ pc \in {"loop", "final", "done"}
        /\ scrape_requests = 0
        /\ \A x \in ItemIds : stage_entries[x] = 0
        /\ marked_posts = {}
        /\ processed_images = LoadTrackingData(tracking_file)
        /\ GetAcceptedImages(processed_images) = ledger_at_init
        /\ pc = "done" =>
              /\ results.success
              /\ results.new_accepted_count = 0
              /\ results.iterations_completed = 0
C18_Witness ==
    /\ pc = "done"
    /\ target_count = 1
    /\ Cardinality(ledger_at_init) = 1
    /\ max_iterations = MaxIterations
    /\ profiles_configured
    /\ results.success /\ results.iterations_completed = 0

(* C19: after a crash at any point, a tracker started on the same directory *)
(* reports is_processed for every item whose mark_processed call had        *)
(* completed before the crash                                               *)
C19_CrashLosesAtMostInFlight ==
    tracker_proc = "restarted" =>
        \A x \in DOMAIN last_call : IsProcessed(processed_images, last_call[x].post)

Expired(entry, days) ==
    \/ entry.processed_at.kind \in {"missing", "null", "malformed"}
    \/ entry.processed_at.kind = "iso" /\ entry.processed_at.age > days
(* C21: cleanup_old_entries(days) raises nothing, removes exactly the       *)
(* entries older than the cutoff and those whose processed_at is missing,   *)
(* null or malformed, keeps every other entry unchanged, and rewrites the   *)
(* file when an entry was removed                                           *)
C21_CleanupRemovesExactlyOld ==
    cleanup.state \notin {"idle", "called"} =>
        LET removed == {k \in DOMAIN cleanup.before :
                          Expired(cleanup.before[k], cleanup.days)}
        IN /\ cleanup.state = "returned"
           /\ DOMAIN processed_images = DOMAIN cleanup.before \ removed
           /\ \A k \in DOMAIN processed_images :
                 processed_images[k] = cleanup.before[k]
           /\ removed = {} => tracking_file = cleanup.file_before
           /\ removed # {} =>
                 tracking_file \in {SaveTrackingData(processed_images,
                                        cleanup.file_before, io) : io \in SaveOutcomes}

(* the positions of ps whose item has no entry in ledger, and the k-th of   *)
(* them in increasing order                                                 *)
NewPositions(ledger, ps) == {k \in DOMAIN ps : ps[k].shortCode \notin DOMAIN ledger}
NthPosition(S, n) == CHOOSE k \in S : Cardinality({m \in S : m < k}) = n - 1
(* C22: get_unprocessed_posts returns exactly the items without a ledger    *)
(* entry, in input order and with the input's duplicates, and leaves the    *)
(* ledger and its file as they were                                         *)
C22_UnprocessedIsStableFilter ==
    [][pc = "dedupe" =>
          LET keep == NewPositions(processed_images, posts)
              got == IF pc' = "per_item" THEN unprocessed_posts' ELSE <<>>
          IN /\ pc' \in {"per_item", "loop"}
             /\ Len(got) = Cardinality(keep)
             /\ \A j \in DOMAIN got : got[j] = posts[NthPosition(keep, j)]
             /\ UNCHANGED <<processed_images, tracking_file>>]_vars
C22_Witness ==
    /\ pc = "per_item" /\ idx = 1
    /\ processed_images # EmptyLedger
    /\ Len(posts) = 2 /\ Len(unprocessed_posts) = 2
    /\ posts[1].shortCode = posts[2].shortCode

(* C23: the id derived for a record is the same at every time, so that      *)
(* is_processed(x) is true at any time after mark_processed(x), also for a  *)
(* record without short code, post id and image URL                         *)
C23_IdDeterministic ==
    \A post_data \in id_marked :
        GenerateImageIdAt(post_data, clock) \in DOMAIN processed_images

(* C24: with the upstream client missing, or with no profile list passed or *)
(* configured, process_batch raises before its first iteration: no scrape   *)
(* request, no ledger entry, no batch result                                *)
C24_ConfigFaultRaisesAtOnce ==
    (pc # "init" /\ (~apify_client \/ ~profiles_configured)) =>
        /\ pc = "raised"
        /\ scrape_requests = 0
        /\ marked_posts = {}
        /\ ~results.returned

(* C25: within one process_batch call no item id enters the download and    *)
(* analysis stage more than once                                            *)
C25_EachIdProcessedOnce ==
    \A x \in ItemIds : stage_entries[x] <= 1

(* C26: in the returned result accepted_count equals tracker_stats.accepted *)
(* and new_accepted_count equals the number of ledger entries that became   *)
(* accepted during the call                                                 *)
C26_CountsAgreeWithLedger ==
    pc = "done" =>
        /\ results.accepted_count = results.tracker_stats.accepted
        /\ results.new_accepted_count =
              Cardinality(GetAcceptedImages(processed_images) \ ledger_at_init)

TerminalStatuses == {"accepted", "rejected", "error"}
(* C27: once the per-item stage of a round has started, every item the      *)
(* round's dedupe step returned gets a ledger entry with a terminal status  *)
(* before the next target check, even when the target is reached partway;   *)
(* accepted_count can exceed target_count only by items of the last         *)
(* processed round                                                          *)
C27_RoundRunsToItsEnd ==
    /\ [][pc = "per_item" => pc' \in {"per_item", "iter_end"}]_vars
    /\ [](pc = "iter_end" =>
            /\ idx = Len(unprocessed_posts) + 1
            /\ \A k \in DOMAIN unprocessed_posts :
                  /\ unprocessed_posts[k].shortCode \in DOMAIN processed_images
                  /\ processed_images[unprocessed_posts[k].shortCode].status
                        \in TerminalStatuses)
    /\ []((pc = "done" /\ Len(iteration_results) > 0) =>
            results.accepted_count
              - iteration_results[Len(iteration_results)].accepted < target_count)
C27_Witness ==
    /\ pc = "done"
    /\ target_count = 1
    /\ results.accepted_count = 2
    /\ results.iterations_completed = 1
    /\ GetStats(processed_images).accepted = 2

(* C28: the controller writes status accepted only for an item whose image  *)
(* was downloaded, whose width/height ratio is at least 1.2 and which the   *)
(* acceptance gate accepted; every status it writes is accepted, rejected   *)
(* or error                                                                 *)
C28_AcceptedOnlyThroughGate ==
    /\ \A x \in DOMAIN processed_images :
          processed_images[x].status \in TerminalStatuses
    /\ (ItemDone /\ processed_images[LastPost.shortCode].status = "accepted") =>
          /\ last_fate \notin ControllerFaults \cup {"download_fail", "decode_fail"}
          /\ last_image.decodable
          /\ 10 * last_image.w >= 12 * last_image.h
          /\ last_result.returned /\ last_result.status = "accepted"
          /\ ~last_result.analysis.is_video_thumbnail
          /\ last_result.analysis.quality_score >= criteria.min_quality_score
          /\ BestWanted(last_result.analysis, criteria.content_categories)
                >= criteria.min_category_score
          /\ last_result.analysis.overall_score >= criteria.min_overall_score
C28_Witness ==
    /\ ItemDone
    /\ processed_images[LastPost.shortCode].status = "accepted"
    /\ last_image = Image(6, 4)
    /\ criteria.min_quality_score = 0

(* C29: when two trackers on the same file have marked different items, the *)
(* file holds the entries of both                                           *)
C29_TwoWritersKeepBoth ==
    (DOMAIN last_call \cap DOMAIN other_call = {}) =>
        \A x \in DOMAIN last_call \cup DOMAIN other_call :
            x \in DOMAIN LoadTrackingData(tracking_file)

(* C30: with the vision classifier unavailable and min_category_score > 0   *)
(* process_batch records no item as accepted                                *)
C30_NoAcceptWithoutClassifier ==
    (ItemDone /\ last_fate = "classifier_exception"
       /\ criteria.min_category_score > 0) =>
        /\ processed_images[LastPost.shortCode].status # "accepted"
        /\ ~(last_result.returned /\ last_result.status = "accepted")

====
